---- MODULE Spec2Model ----
(***************************************************************************)
(* Black-Scholes pricing engine (greeks.py) and the single-path simulator  *)
(* (simulation.py).                                                        *)
(*                                                                         *)
(* Numbers.  A Python float x is modelled by the integer round-down of     *)
(* x * Unit (fixed point, three decimals).  The library functions the      *)
(* source imports (math.log/exp/sqrt, scipy norm.cdf, numpy linspace and   *)
(* the numpy global generator) are modelled by what they compute, at that  *)
(* resolution, and by the exceptions they raise.                           *)
(*                                                                         *)
(* Outcomes.  A call either returns a value or raises; an outcome is a     *)
(* record [kind, value, exc, evald], where evald tells whether d_1 was     *)
(* evaluated on the way.                                                   *)
(***************************************************************************)
EXTENDS Integers, Sequences, FiniteSets, TLC

\* Fixed-point resolution: one unit of the model is 1/Unit.
Unit == 10 ^ 3

Max(a, b) == IF b > a THEN b ELSE a

Abs(a) == IF a < 0 THEN -a ELSE a

\* a * b and a / b of two fixed-point numbers
Mul(a, b) == (a * b) \div Unit

Div(a, b) == (a * Unit) \div b

----------------------------------------------------------------------------
(* Outcomes of a call *)

Return(v) == [kind |-> "return", value |-> v, exc |-> "none", evald |-> FALSE]

Raise(e) == [kind |-> "raise", value |-> 0, exc |-> e, evald |-> FALSE]

\* the outcome o, reached after d_1 was evaluated
AfterD(o) == [o EXCEPT !.evald = TRUE]

----------------------------------------------------------------------------
(* math.sqrt, math.exp, math.log, math.pi *)

RECURSIVE isqrt(_, _, _)
isqrt(n, lo, hi) ==
    IF lo >= hi THEN lo
    ELSE LET mid == (lo + hi + 1) \div 2
         IN  IF mid * mid <= n THEN isqrt(n, mid, hi) ELSE isqrt(n, lo, mid - 1)

\* sqrt(x) for x >= 0 (the callers raise ValueError for x < 0)
sqrt(x) == isqrt(x * Unit, 0, 46340)

\* 1 + x + x^2/2! + ... + x^6/6!, for |x| <= 1
ExpSeries(x) ==
    LET x2 == Mul(x, x)
        x3 == Mul(x2, x)
        x4 == Mul(x3, x)
        x5 == Mul(x4, x)
        x6 == Mul(x5, x)
    IN  Unit + x + (x2 \div 2) + (x3 \div 6) + (x4 \div 24) + (x5 \div 120)
             + (x6 \div 720)

RECURSIVE exp(_)
exp(x) ==
    IF Abs(x) <= Unit THEN ExpSeries(x)
    ELSE LET h == exp(x \div 2)
             hh == exp(x - (x \div 2))
         IN  Mul(h, hh)

Ln2 == (693147 * Unit) \div 1000000

\* ln(m) for 1 <= m < 2: 2 * (t + t^3/3 + t^5/5), t = (m - 1) / (m + 1)
LogSeries(m) ==
    LET t == Div(m - Unit, m + Unit)
        t2 == Mul(t, t)
        t3 == Mul(t2, t)
        t5 == Mul(t3, t2)
    IN  2 * (t + (t3 \div 3) + (t5 \div 5))

\* log(x) for x > 0 (the callers raise ValueError for x <= 0)
RECURSIVE log(_)
log(x) ==
    IF x >= 2 * Unit THEN Ln2 + log(x \div 2)
    ELSE IF x < Unit THEN log(2 * x) - Ln2
    ELSE LogSeries(x)

pi == (314159 * Unit) \div 100000

----------------------------------------------------------------------------
(* Statistics primitives: scipy.stats.norm.cdf and pdf *)

\* Standard normal PDF.
pdf(x) ==
    Mul(Div(Unit, sqrt(2 * pi)), exp(Mul(Mul(-(Unit \div 2), x), x)))

\* Phi(x) for x >= 0: 1 - pdf(x) * (b1 t + ... + b5 t^5), t = 1 / (1 + p x)
CdfUpper(x) ==
    LET t == Div(Unit, Unit + Mul((231642 * Unit) \div 1000000, x))
        b1 == (319382 * Unit) \div 1000000
        b2 == -((356564 * Unit) \div 1000000)
        b3 == (1781478 * Unit) \div 1000000
        b4 == -((1821256 * Unit) \div 1000000)
        b5 == (1330274 * Unit) \div 1000000
        poly == Mul(t, b1 + Mul(t, b2 + Mul(t, b3 + Mul(t, b4 + Mul(t, b5)))))
    IN  Unit - Mul(pdf(x), poly)

\* norm.cdf: defined for every x, no error
norm_cdf(x) == IF x >= 0 THEN CdfUpper(x) ELSE Unit - CdfUpper(-x)

----------------------------------------------------------------------------
(* option_type strings: sequences of characters, and str.lower() *)

UpperCase == <<"A", "C", "L", "P", "T", "U">>

LowerCase == <<"a", "c", "l", "p", "t", "u">>

LowerChar(ch) ==
    IF \E i \in DOMAIN UpperCase : UpperCase[i] = ch
    THEN LowerCase[CHOOSE i \in DOMAIN UpperCase : UpperCase[i] = ch]
    ELSE ch

lower(s) == [i \in DOMAIN s |-> LowerChar(s[i])]

call == <<"c", "a", "l", "l">>

put == <<"p", "u", "t">>

----------------------------------------------------------------------------
(* Black-Scholes core *)

\* (log(S / K) + (r + 0.5 * sigma**2) * T) / (sigma * sqrt(T)), evaluated
\* left to right: S / K raises ZeroDivisionError for K = 0, log raises
\* ValueError for a non-positive argument, sqrt for a negative one, and the
\* final division raises ZeroDivisionError for sigma * sqrt(T) = 0.
d_1(S, K, T, r, sigma) ==
    IF K = 0 THEN AfterD(Raise("ZeroDivisionError"))
    ELSE IF S = 0 \/ ((S > 0) # (K > 0)) THEN AfterD(Raise("ValueError"))
    ELSE IF T < 0 THEN AfterD(Raise("ValueError"))
    ELSE IF Mul(sigma, sqrt(T)) = 0 THEN AfterD(Raise("ZeroDivisionError"))
    ELSE AfterD(Return(Div(log(Div(S, K))
                           + Mul(r + Mul(Unit \div 2, Mul(sigma, sigma)), T),
                           Mul(sigma, sqrt(T)))))

d_2(S, K, T, r, sigma) ==
    LET d1 == d_1(S, K, T, r, sigma)
    IN  IF d1.kind = "raise" THEN d1
        ELSE AfterD(Return(d1.value - Mul(sigma, sqrt(T))))

\* a mutant of price_at_expiry: the payoff without its floor at 0.0
price_at_expiry_unfloored(option_type, S, K) ==
    IF lower(option_type) = call THEN Return(S - K)
    ELSE IF lower(option_type) = put THEN Return(K - S)
    ELSE Raise("ValueError")

\* lines 111-116: the early payoff at expiry
price_at_expiry(option_type, S, K) ==
    IF lower(option_type) = call THEN Return(Max(S - K, 0))
    ELSE IF lower(option_type) = put THEN Return(Max(K - S, 0))
    ELSE Raise("ValueError")

option_price(option_type, S, K, T, r, sigma) ==
    IF T <= 0 THEN price_at_expiry(option_type, S, K)
    ELSE
        LET d1 == d_1(S, K, T, r, sigma)
            d2 == d_2(S, K, T, r, sigma)
        IN  IF d1.kind = "raise" THEN d1
            ELSE IF d2.kind = "raise" THEN d2
            ELSE IF lower(option_type) = call THEN
                AfterD(Return(Mul(S, norm_cdf(d1.value))
                              - Mul(Mul(K, exp(Mul(-r, T))), norm_cdf(d2.value))))
            ELSE IF lower(option_type) = put THEN
                AfterD(Return(Mul(Mul(K, exp(Mul(-r, T))), norm_cdf(-d2.value))
                              - Mul(S, norm_cdf(-d1.value))))
            ELSE AfterD(Raise("ValueError"))

\* a mutant of delta_at_expiry: the step taken at S >= K and S <= K
delta_at_expiry_inclusive(option_type, S, K) ==
    IF lower(option_type) = call
    THEN Return(IF S >= K THEN Unit ELSE 0)
    ELSE Return(IF S <= K THEN -Unit ELSE 0)

\* lines 131-134: at expiry delta is a step function
delta_at_expiry(option_type, S, K) ==
    IF lower(option_type) = call
    THEN Return(IF S > K THEN Unit ELSE 0)
    ELSE Return(IF S < K THEN -Unit ELSE 0)

delta(option_type, S, K, T, r, sigma) ==
    IF T <= 0 THEN delta_at_expiry(option_type, S, K)
    ELSE
        LET d1 == d_1(S, K, T, r, sigma)
        IN  IF d1.kind = "raise" THEN d1
            ELSE IF lower(option_type) = call THEN
                AfterD(Return(norm_cdf(d1.value)))
            ELSE IF lower(option_type) = put THEN
                AfterD(Return(norm_cdf(d1.value) - Unit))
            ELSE AfterD(Raise("ValueError"))

\* lines 148-149: gamma before expiry
gamma_before_expiry(S, K, T, r, sigma) ==
    LET d1 == d_1(S, K, T, r, sigma)
    IN  IF d1.kind = "raise" THEN d1
        ELSE AfterD(Return(Div(pdf(d1.value), Mul(Mul(S, sigma), sqrt(T)))))

\* a mutant of gamma: the guard T <= 0 left out
gamma_unguarded(S, K, T, r, sigma) == gamma_before_expiry(S, K, T, r, sigma)

gamma(S, K, T, r, sigma) ==
    IF T <= 0 THEN Return(0)
    ELSE gamma_before_expiry(S, K, T, r, sigma)

vega(S, K, T, r, sigma) ==
    IF T <= 0 THEN Return(0)
    ELSE
        LET d1 == d_1(S, K, T, r, sigma)
        IN  IF d1.kind = "raise" THEN d1
            ELSE AfterD(Return(Mul(Mul(S, pdf(d1.value)), sqrt(T))))

theta(option_type, S, K, T, r, sigma) ==
    IF T <= 0 THEN Return(0)
    ELSE
        LET d1 == d_1(S, K, T, r, sigma)
            d2 == d_2(S, K, T, r, sigma)
            term1 == -Div(Mul(Mul(S, pdf(d1.value)), sigma), 2 * sqrt(T))
        IN  IF d1.kind = "raise" THEN d1
            ELSE IF d2.kind = "raise" THEN d2
            ELSE IF lower(option_type) = call THEN
                AfterD(Return(term1
                    + Mul(Mul(Mul(-r, K), exp(Mul(-r, T))), norm_cdf(d2.value))))
            ELSE IF lower(option_type) = put THEN
                AfterD(Return(term1
                    + Mul(Mul(Mul(r, K), exp(Mul(-r, T))), norm_cdf(-d2.value))))
            ELSE AfterD(Raise("ValueError"))

rho(option_type, S, K, T, r, sigma) ==
    IF T <= 0 THEN Return(0)
    ELSE
        LET d2 == d_2(S, K, T, r, sigma)
        IN  IF d2.kind = "raise" THEN d2
            ELSE IF lower(option_type) = call THEN
                AfterD(Return(Mul(Mul(Mul(K, T), exp(Mul(-r, T))),
                                  norm_cdf(d2.value))))
            ELSE IF lower(option_type) = put THEN
                AfterD(Return(Mul(Mul(Mul(-K, T), exp(Mul(-r, T))),
                                  norm_cdf(-d2.value))))
            ELSE AfterD(Raise("ValueError"))

----------------------------------------------------------------------------
(* State *)

VARIABLES
    inp,     \* the arguments of the Core call under evaluation
    last,    \* the Core operation evaluated on inp, and its outcome
    rng,     \* the state of numpy's process-wide generator (np.random)
    pc,      \* per caller: where its simulate_path call stands
    args,    \* per caller: the arguments of its simulate_path call
    S_arr,   \* per caller: the local array S, as far as it is filled
    ret,     \* per caller: the outcome of its finished simulate_path call
    ncalls,  \* simulate_path calls entered so far
    saved    \* an earlier call's arguments and outcome, kept by the caller

vars == <<inp, last, rng, pc, args, S_arr, ret, ncalls, saved>>

coreVars == <<inp, last>>

simVars == <<rng, pc, args, S_arr, ret, ncalls, saved>>

\* Bounds of the model
MaxSteps == 3

MaxSeed == 1

RngMod == 8

MaxCalls == 3

NumCallers == 2

Callers == 1 .. NumCallers

----------------------------------------------------------------------------
(* Inputs *)

OptionTypes ==
    { call, put, <<"C", "A", "L", "L">>, <<"P", "u", "t">>,
      <<"c", "a", "l", "l", "s">>, <<>> }

Spots == { -100 * Unit, 0, 95 * Unit, 100 * Unit, 105 * Unit }

Strikes == { -100 * Unit, 0, 100 * Unit }

Expiries == { -Unit, 0, Unit \div 2, Unit }

Rates == { -(Unit \div 20), 0, Unit \div 20 }

Vols == { -(Unit \div 5), 0, Unit \div 5 }

CoreInputs ==
    [option_type : OptionTypes, S : Spots, K : Strikes, T : Expiries,
     r : Rates, sigma : Vols]

None == <<>>

Seeds == { None } \cup { <<n>> : n \in 0 .. MaxSeed }

\* simulate_path arguments.  K > 0, T >= 0 and sigma # 0: outside of these
\* numpy's float64 arithmetic yields inf and nan, which the model has not.
SimArgs ==
    [S0 : { 100 * Unit, -100 * Unit }, K : { 100 * Unit }, T : { 0, Unit },
     r : { Unit \div 20 }, sigma : { Unit \div 5, -(Unit \div 5) },
     option_type : { call, <<"P", "U", "T">>, <<"c">> },
     steps : -2 .. MaxSteps, seed : Seeds]

SeededArgs ==
    [S0 : { 100 * Unit }, K : { 100 * Unit }, T : { Unit },
     r : { Unit \div 20 }, sigma : { Unit \div 5 },
     option_type : { call },
     steps : 1 .. MaxSteps, seed : Seeds]

NoArgs ==
    [S0 |-> 0, K |-> 0, T |-> 0, r |-> 0, sigma |-> 0, option_type |-> <<>>,
     steps |-> 0, seed |-> None]

Pending == [kind |-> "pending", value |-> 0, exc |-> "none", evald |-> FALSE]

NoSaved == [callno |-> 0, args |-> NoArgs, ret |-> Pending]

----------------------------------------------------------------------------
(* Core calls *)

Eval(op, out) ==
    /\ last.op = "none"
    /\ last' = [op |-> op, out |-> out]
    /\ UNCHANGED <<inp, simVars>>

EvalPrice ==
    Eval("option_price",
         option_price(inp.option_type, inp.S, inp.K, inp.T, inp.r, inp.sigma))

EvalDelta ==
    Eval("delta", delta(inp.option_type, inp.S, inp.K, inp.T, inp.r, inp.sigma))

EvalGamma == Eval("gamma", gamma(inp.S, inp.K, inp.T, inp.r, inp.sigma))

EvalVega == Eval("vega", vega(inp.S, inp.K, inp.T, inp.r, inp.sigma))

EvalTheta ==
    Eval("theta", theta(inp.option_type, inp.S, inp.K, inp.T, inp.r, inp.sigma))

EvalRho ==
    Eval("rho", rho(inp.option_type, inp.S, inp.K, inp.T, inp.r, inp.sigma))

----------------------------------------------------------------------------
(* numpy: the global generator and linspace *)

\* a mutant of np_random_seed: the seed does not reach the generator
np_random_seed_dropped(seed) == rng

\* np.random.seed(seed): the generator's state becomes a function of the seed
np_random_seed(seed) == seed % RngMod

\* the generator's state after one draw
RngNext(state) == (5 * state + 3) % RngMod

\* np.random.randn(): the draw the state yields, one of -1.0, 0.0, 1.0
randn(state) == ((state % 3) - 1) * Unit

\* a mutant of linspace: the last point computed like the others
linspace_stepped(stop, num) ==
    [i \in 1 .. num |-> (i - 1) * (stop \div (num - 1))]

\* np.linspace(0, stop, num) for num >= 2: num points i * (stop / (num - 1)),
\* the last one set to stop itself
linspace(stop, num) ==
    [i \in 1 .. num |->
        IF i = num THEN stop ELSE (i - 1) * (stop \div (num - 1))]

----------------------------------------------------------------------------
(* simulate_path *)

\* lines 13-16: dt = T / steps, np.linspace(0, T, steps + 1),
\* np.empty(steps + 1) and S[0] = S0
Setup(a) ==
    IF a.steps = 0 THEN Raise("ZeroDivisionError")
    ELSE IF a.steps + 1 < 0 THEN Raise("ValueError")
    ELSE IF a.steps + 1 = 0 THEN Raise("IndexError")
    ELSE Return(<<a.S0>>)

\* lines 11-16: seed the global generator when a seed is given, then set up
Enter(c, a) ==
    /\ rng' = IF a.seed # None THEN np_random_seed(a.seed[1]) ELSE rng
    /\ args' = [args EXCEPT ![c] = a]
    /\ ncalls' = ncalls + 1
    /\ IF Setup(a).kind = "raise"
       THEN /\ pc' = [pc EXCEPT ![c] = "done"]
            /\ ret' = [ret EXCEPT ![c] = Setup(a)]
            /\ S_arr' = [S_arr EXCEPT ![c] = <<>>]
       ELSE /\ pc' = [pc EXCEPT ![c] = "draw"]
            /\ ret' = [ret EXCEPT ![c] = Pending]
            /\ S_arr' = [S_arr EXCEPT ![c] = Setup(a).value]
    /\ UNCHANGED <<coreVars, saved>>

\* a first call, with any arguments
Call(c) ==
    /\ pc[c] = "idle"
    /\ \E a \in SimArgs : Enter(c, a)

\* a call, first or later, with the arguments of the example run
CallSeeded(c) ==
    /\ pc[c] \in {"idle", "done"}
    /\ ncalls < MaxCalls
    /\ \E a \in SeededArgs : Enter(c, a)

\* S[i] * np.exp((r - 0.5 * sigma**2) * dt + sigma * np.sqrt(dt) * z)
GbmStep(Si, a, z) ==
    LET dt == a.T \div a.steps
    IN  Mul(Si, exp(Mul(a.r - Mul(Unit \div 2, Mul(a.sigma, a.sigma)), dt)
                    + Mul(Mul(a.sigma, sqrt(dt)), z)))

\* lines 27-29, one iteration: one draw from the global generator
Draw(c) ==
    /\ pc[c] = "draw"
    /\ LET S == S_arr[c]
           Snext == Append(S, GbmStep(S[Len(S)], args[c], randn(rng)))
       IN  /\ S_arr' = [S_arr EXCEPT ![c] = Snext]
           /\ pc' = [pc EXCEPT ![c] =
                        IF Len(Snext) = args[c].steps + 1 THEN "greeks"
                        ELSE "draw"]
    /\ rng' = RngNext(rng)
    /\ UNCHANGED <<coreVars, args, ret, ncalls, saved>>

\* a mutant of Row: the Core called with T, not with the remaining time
Row_full_time(a, Si, t) ==
    << option_price(a.option_type, Si, a.K, a.T, a.r, a.sigma),
       delta(a.option_type, Si, a.K, a.T, a.r, a.sigma),
       gamma(Si, a.K, a.T, a.r, a.sigma),
       vega(Si, a.K, a.T, a.r, a.sigma),
       theta(a.option_type, Si, a.K, a.T, a.r, a.sigma),
       rho(a.option_type, Si, a.K, a.T, a.r, a.sigma) >>

\* lines 33-39: the six Core calls at one time point
Row(a, Si, t) ==
    LET T_rem == Max(a.T - t, 0)
    IN  << option_price(a.option_type, Si, a.K, T_rem, a.r, a.sigma),
           delta(a.option_type, Si, a.K, T_rem, a.r, a.sigma),
           gamma(Si, a.K, T_rem, a.r, a.sigma),
           vega(Si, a.K, T_rem, a.r, a.sigma),
           theta(a.option_type, Si, a.K, T_rem, a.r, a.sigma),
           rho(a.option_type, Si, a.K, T_rem, a.r, a.sigma) >>

\* lines 32-39: the loop over the time points from index i on, filling the
\* arrays acc; the first Core call that raises ends it
RECURSIVE GreeksFrom(_, _, _, _, _)
GreeksFrom(a, S, times, i, acc) ==
    IF i > Len(times) THEN Return(acc)
    ELSE
        LET row == Row(a, S[i], times[i])
            bad == {j \in 1 .. 6 : row[j].kind = "raise"}
        IN  IF bad # {}
            THEN Raise(row[CHOOSE j \in bad : \A k \in bad : j <= k].exc)
            ELSE GreeksFrom(a, S, times, i + 1,
                    [price |-> Append(acc.price, row[1].value),
                     delta |-> Append(acc.delta, row[2].value),
                     gamma |-> Append(acc.gamma, row[3].value),
                     vega |-> Append(acc.vega, row[4].value),
                     theta |-> Append(acc.theta, row[5].value),
                     rho |-> Append(acc.rho, row[6].value),
                     times |-> times, S |-> S])

\* lines 14 and 32-41: the time points, the loop and the returned tuple
GreeksLoop(a, S) ==
    GreeksFrom(a, S, linspace(a.T, a.steps + 1), 1,
               [price |-> <<>>, delta |-> <<>>, gamma |-> <<>>, vega |-> <<>>,
                theta |-> <<>>, rho |-> <<>>,
                times |-> linspace(a.T, a.steps + 1), S |-> S])

Greeks(c) ==
    /\ pc[c] = "greeks"
    /\ ret' = [ret EXCEPT ![c] = GreeksLoop(args[c], S_arr[c])]
    /\ pc' = [pc EXCEPT ![c] = "done"]
    /\ S_arr' = [S_arr EXCEPT ![c] = <<>>]
    /\ UNCHANGED <<coreVars, rng, args, ncalls, saved>>

\* any other code of the process drawing from np.random, between two calls
OtherDraw ==
    /\ \A c \in Callers : pc[c] \in {"idle", "done"}
    /\ rng' = RngNext(rng)
    /\ UNCHANGED <<coreVars, pc, args, S_arr, ret, ncalls, saved>>

\* the caller keeps the outcome of a finished call
Snapshot(c) ==
    /\ pc[c] = "done"
    /\ saved # [callno |-> ncalls, args |-> args[c], ret |-> ret[c]]
    /\ saved' = [callno |-> ncalls, args |-> args[c], ret |-> ret[c]]
    /\ UNCHANGED <<coreVars, rng, pc, args, S_arr, ret, ncalls>>

----------------------------------------------------------------------------
(* Specifications *)

InitSim ==
    /\ rng \in 0 .. RngMod - 1
    /\ pc = [c \in Callers |-> "idle"]
    /\ args = [c \in Callers |-> NoArgs]
    /\ S_arr = [c \in Callers |-> <<>>]
    /\ ret = [c \in Callers |-> Pending]
    /\ ncalls = 0
    /\ saved = NoSaved

InitCore ==
    /\ inp \in CoreInputs
    /\ last = [op |-> "none", out |-> Pending]
    /\ rng = 0
    /\ pc = [c \in Callers |-> "idle"]
    /\ args = [c \in Callers |-> NoArgs]
    /\ S_arr = [c \in Callers |-> <<>>]
    /\ ret = [c \in Callers |-> Pending]
    /\ ncalls = 0
    /\ saved = NoSaved

Init ==
    /\ inp = CHOOSE i \in CoreInputs : TRUE
    /\ last = [op |-> "none", out |-> Pending]
    /\ InitSim

NextCore ==
    \/ EvalPrice
    \/ EvalDelta
    \/ EvalGamma
    \/ EvalVega
    \/ EvalTheta
    \/ EvalRho

\* the Core operations, each applied to every input
SpecCore == InitCore /\ [][NextCore]_vars

NextSim == Call(1) \/ Draw(1) \/ Greeks(1)

\* one simulate_path call of a fresh process
SpecSim == Init /\ [][NextSim]_vars

NextSeq == CallSeeded(1) \/ Draw(1) \/ Greeks(1) \/ OtherDraw \/ Snapshot(1)

\* a single-threaded process calling simulate_path again and again
SpecSeq == Init /\ [][NextSeq]_vars

CallOnce(c) == pc[c] = "idle" /\ CallSeeded(c)

NextConc == \E c \in Callers : CallOnce(c) \/ Draw(c) \/ Greeks(c)

\* concurrent callers (threads) in one process, each calling simulate_path once
SpecConc == Init /\ [][NextConc]_vars

----------------------------------------------------------------------------
(* Claims about the Core, under SpecCore *)

TypedOps == {"option_price", "delta", "theta", "rho"}

ValidType(t) == lower(t) = call \/ lower(t) = put

Evaluated == last.op # "none"

\* C1: every Core operation that takes an option_type fails, and returns no
\* number, when the option_type is neither 'call' nor 'put' in any case of
\* letters, at every T, T <= 0 included.
C1_InvalidTypeFails ==
    (last.op \in TypedOps /\ ~ValidType(inp.option_type))
        => last.out.kind = "raise"

\* C2: at T <= 0 option_price returns max(S - K, 0) for a call and
\* max(K - S, 0) for a put, whatever r and sigma are, undiscounted.
C2_IntrinsicAtExpiry ==
    (last.op = "option_price" /\ inp.T <= 0) =>
        /\ lower(inp.option_type) = call =>
              last.out = Return(IF inp.S - inp.K > 0 THEN inp.S - inp.K ELSE 0)
        /\ lower(inp.option_type) = put =>
              last.out = Return(IF inp.K - inp.S > 0 THEN inp.K - inp.S ELSE 0)

\* a put given in upper case, in the money at T < 0 with sigma = 0 and r # 0
C2_Witness ==
    /\ last.op = "option_price"
    /\ inp.T < 0
    /\ inp.option_type = <<"P", "u", "t">>
    /\ inp.sigma = 0
    /\ inp.r # 0
    /\ inp.S = 95 * Unit
    /\ inp.K = 100 * Unit
    /\ last.out = Return(5 * Unit)

\* C3: at T <= 0 delta is a step function of S and K: 1.0 for a call with
\* S > K, -1.0 for a put with S < K, and 0.0 otherwise, so 0.0 at S = K.
C3_DeltaStepAtExpiry ==
    (last.op = "delta" /\ inp.T <= 0) =>
        /\ lower(inp.option_type) = call =>
              last.out = Return(IF inp.S > inp.K THEN Unit ELSE 0)
        /\ lower(inp.option_type) = put =>
              last.out = Return(IF inp.S < inp.K THEN -Unit ELSE 0)
        /\ (ValidType(inp.option_type) /\ inp.S = inp.K) => last.out = Return(0)

\* a call at the money at T = 0: delta is 0.0
C3_Witness ==
    /\ last.op = "delta"
    /\ inp.T = 0
    /\ lower(inp.option_type) = call
    /\ inp.S = 100 * Unit
    /\ inp.K = 100 * Unit
    /\ last.out = Return(0)

\* C10: at T <= 0, with a valid option_type, no Core operation evaluates d1
\* or d2 and none raises, for every sigma, 0 included; gamma, vega, theta and
\* rho return 0.0.
C10_NoDistanceAtExpiry ==
    (/\ Evaluated
     /\ inp.T <= 0
     /\ last.op \in TypedOps => ValidType(inp.option_type)) =>
        /\ last.out.kind = "return"
        /\ ~last.out.evald
        /\ last.op \in {"gamma", "vega", "theta", "rho"} => last.out.value = 0

\* gamma at T = 0 with sigma = 0
C10_Witness ==
    /\ last.op = "gamma"
    /\ inp.T = 0
    /\ inp.sigma = 0
    /\ inp.S = 100 * Unit
    /\ inp.K = 100 * Unit
    /\ last.out = Return(0)

\* C8: invalid numbers are rejected, not answered: simulate_path fails for
\* steps < 1, S0 <= 0 or sigma <= 0, and every Core operation called with
\* T > 0 fails for S <= 0, K <= 0 or sigma <= 0.
C8_InvalidNumbersFail ==
    /\ (/\ Evaluated
        /\ inp.T > 0
        /\ (inp.S <= 0 \/ inp.K <= 0 \/ inp.sigma <= 0))
          => last.out.kind = "raise"
    /\ \A c \in Callers :
          (/\ pc[c] = "done"
           /\ (args[c].steps < 1 \/ args[c].S0 <= 0 \/ args[c].sigma <= 0))
             => ret[c].kind = "raise"

----------------------------------------------------------------------------
(* Claims about simulate_path *)

Returned(c) == pc[c] = "done" /\ ret[c].kind = "return"

Seqs(v) ==
    <<v.times, v.S, v.price, v.delta, v.gamma, v.vega, v.theta, v.rho>>

\* C4: for steps >= 1 the sequences simulate_path returns (times, spot,
\* price, delta, gamma, vega, theta, rho) all have length steps + 1 and the
\* same indices; the first time is 0, the last time is T, the first spot S0.
C4_AlignedSequences ==
    \A c \in Callers :
        (Returned(c) /\ args[c].steps >= 1) =>
            LET v == ret[c].value
                n == args[c].steps + 1
            IN  /\ \A k \in 1 .. 8 :
                      Len(Seqs(v)[k]) = n /\ DOMAIN Seqs(v)[k] = 1 .. n
                /\ v.times[1] = 0
                /\ v.times[n] = args[c].T
                /\ v.S[1] = args[c].S0

\* three steps over T = 1.0: T / steps is not exact, the last time is T
C4_Witness ==
    /\ Returned(1)
    /\ args[1].steps = 3
    /\ args[1].T = Unit
    /\ 3 * ret[1].value.times[2] # Unit
    /\ Len(ret[1].value.rho) = 4
    /\ ret[1].value.times[4] = Unit

\* C5: the price and the Greeks at index i come from
\* (S[i], K, max(T - t_i, 0), r, sigma); at the last index the remaining time
\* is 0: the last price is the intrinsic payoff of the last spot, the last
\* delta the expiry step, and the last gamma, vega, theta and rho are 0.0.
C5_RemainingTime ==
    \A c \in Callers :
        Returned(c) =>
            LET a == args[c]
                v == ret[c].value
                n == a.steps + 1
                Trem(i) == IF a.T - v.times[i] > 0 THEN a.T - v.times[i] ELSE 0
                isCall == lower(a.option_type) = call
            IN  /\ \A i \in 1 .. n :
                      /\ v.price[i] = option_price(a.option_type, v.S[i], a.K,
                                                   Trem(i), a.r, a.sigma).value
                      /\ v.delta[i] = delta(a.option_type, v.S[i], a.K,
                                            Trem(i), a.r, a.sigma).value
                      /\ v.gamma[i] = gamma(v.S[i], a.K, Trem(i), a.r, a.sigma).value
                      /\ v.vega[i] = vega(v.S[i], a.K, Trem(i), a.r, a.sigma).value
                      /\ v.theta[i] = theta(a.option_type, v.S[i], a.K,
                                            Trem(i), a.r, a.sigma).value
                      /\ v.rho[i] = rho(a.option_type, v.S[i], a.K,
                                        Trem(i), a.r, a.sigma).value
                /\ Trem(n) = 0
                /\ v.price[n] = IF isCall
                                THEN (IF v.S[n] > a.K THEN v.S[n] - a.K ELSE 0)
                                ELSE (IF a.K > v.S[n] THEN a.K - v.S[n] ELSE 0)
                /\ v.delta[n] = IF isCall
                                THEN (IF v.S[n] > a.K THEN Unit ELSE 0)
                                ELSE (IF v.S[n] < a.K THEN -Unit ELSE 0)
                /\ v.gamma[n] = 0
                /\ v.vega[n] = 0
                /\ v.theta[n] = 0
                /\ v.rho[n] = 0

\* a call over T = 1.0 that ends in the money: the first point is priced
\* before expiry, the last one at its payoff with delta 1.0
C5_Witness ==
    /\ Returned(1)
    /\ args[1].T = Unit
    /\ args[1].steps = 2
    /\ lower(args[1].option_type) = call
    /\ ret[1].value.S[3] > args[1].K
    /\ ret[1].value.price[3] = ret[1].value.S[3] - args[1].K
    /\ ret[1].value.delta[3] = Unit
    /\ ret[1].value.vega[1] > 0
    /\ ret[1].value.vega[3] = 0

\* C7: two calls of simulate_path, one after the other, with the same seed
\* (not None) and the same parameters return the same sequences, whatever
\* draws and calls came between them.
C7_SameSeedSameOutput ==
    \A c \in Callers :
        (/\ pc[c] = "done"
         /\ saved.callno > 0
         /\ saved.args = args[c]
         /\ args[c].seed # None)
           => ret[c] = saved.ret

\* the third call repeats the first one's arguments and seed, after a second
\* call and with the generator moved on, and returns what the first returned
C7_Witness ==
    /\ Returned(1)
    /\ ncalls = 3
    /\ saved.callno = 1
    /\ saved.args = args[1]
    /\ args[1].seed # None
    /\ args[1].steps = 2
    /\ rng # np_random_seed(args[1].seed[1])
    /\ ret[1] = saved.ret

\* C6: no simulate_path call shares state with another: its output is a
\* function of its own arguments, so two finished calls with the same
\* arguments and the same seed (not None) have the same output, also when
\* they ran interleaved.
C6_CallsIndependent ==
    \A c1, c2 \in Callers :
        (/\ pc[c1] = "done"
         /\ pc[c2] = "done"
         /\ args[c1] = args[c2]
         /\ args[c1].seed # None)
           => ret[c1] = ret[c2]

====
